---- MODULE Spec2Model ----
(***************************************************************************)
(* Prediction-league bot: the PostgreSQL tables of src/bot.py              *)
(* (DatabaseManager), the handlers of FantasyLeagueBot that write them,    *)
(* and the admin API of src/app/main.py.  Every SQL statement is one       *)
(* atomic step (asyncpg runs each execute/fetch in autocommit mode: the    *)
(* code opens no transaction), and a handler is a sequence of such steps   *)
(* that other handlers may interleave with at every await.                 *)
(*                                                                         *)
(* Time is counted in hours since a Monday 00:00; a DATE is a day number   *)
(* (hours \div HoursPerDay) and day 0 is a Monday.                         *)
(***************************************************************************)
EXTENDS Integers, Sequences, FiniteSets, Bags, TLC

\* ---------------------------------------------------------------- bounds
MaxUsers == 2
MaxWeeks == 1
MaxLeagueSeq == 3
MaxQuestions == 2
MaxHistory == 11

\* ------------------------------------------------------ program constants
HoursPerDay == 24
DaysPerWeek == 7
DefaultCloseDays == 7
DemoCloseDaysA == 3
DemoCloseDaysB == 7
DefaultLeagueId == 1
DefaultLimit == 10
\* ScoringConfig; probabilities are counted in hundredths and the multiplier
\* 1.5 in tenths
BaseCorrectPoints == 10
BaseWrongPoints == 0
ContrarianBonusThreshold == 30
ContrarianBonusMultiplier == 15
StreakBonusThreshold == 3
StreakBonusPerCorrect == 2
EarlyBirdBonusHours == 24
EarlyBirdBonus == 3
StreakLimit == 10
\* FantasyLeagueBot.rate_limit_window (seconds) and rate_limit_max
RateLimitWindow == 60
RateLimitMax == 15

\* ------------------------------------------------------------ input sets
Procs == {"p1", "p2"}
UserIds == 1..MaxUsers
Tickers == {"KX1"}
Titles == {"T1", "T2"}
MaxNow == MaxWeeks * DaysPerWeek * HoursPerDay
None == "none"
\* the clock of the rate limiter is read at multiples of half a window
ClockStep == RateLimitWindow \div 2
MaxClock == MaxWeeks * RateLimitWindow

VARIABLES
    users,              \* table users: id -> row
    leagues,            \* table leagues: id -> row
    leagues_id_seq,     \* last value of the SERIAL sequence of leagues.id
    league_members,     \* table league_members: set of <<league_id, user_id>>
    markets,            \* table markets: id -> row
    predictions,        \* table predictions: bag of rows
    now,                \* NOW() / datetime.now(), in hours
    pc,                 \* per handler instance: the statement it is at
    loc,                \* per handler instance: its arguments and locals
    result,             \* per handler instance: outcome of its last call
    history,            \* the latest run of successive make_prediction calls on one (user, market, league)
    leaderboard,        \* arguments and rows of the last get_leaderboard call
    questions,          \* app: table predictions of app/models.py: id -> row
    votes,              \* app: table prediction_votes: set of rows
    response,           \* app: HTTP response of the last admin request
    weekly,             \* arguments and rows of the last get_weekly_markets call
    scored,             \* arguments and value of the last calculate_score / get_user_streak call
    stats,              \* argument and outcome of the last get_user_stats call
    rate_limits,        \* FantasyLeagueBot.rate_limits: user id -> request times
    clock,              \* datetime.now().timestamp(), in seconds
    admitted,           \* user id -> times of the calls admitted less than a window ago
    limited             \* argument and value of the last rate_limit_check call

vars == <<users, leagues, leagues_id_seq, league_members, markets, predictions,
          now, pc, loc, result, history, leaderboard, questions, votes, response,
          weekly, scored, stats, rate_limits, clock, admitted, limited>>

botdb == <<users, leagues, leagues_id_seq, league_members, markets, predictions>>
appdb == <<questions, votes, response>>
limiter == <<rate_limits, clock, admitted, limited>>
reads == <<weekly, scored, stats, limiter>>

\* ------------------------------------------------------------- calendar
Today(t) == t \div HoursPerDay
Weekday(d) == d % DaysPerWeek
IsMonday(d) == Weekday(d) = 0
\* today - timedelta(days=today.weekday())
WeekStartOf(t) == Today(t) - Weekday(Today(t))

\* ------------------------------------------------------------ table rows
UserRow(t) ==
    [total_score |-> 0, weekly_score |-> 0, predictions_made |-> 0,
     predictions_correct |-> 0, created_at |-> t]

PredictionRow(u, m, l, c, t) ==
    [user_id |-> u, market_id |-> m, league_id |-> l, prediction |-> c,
     points_earned |-> 0, created_at |-> t]

\* rows of the predictions table for one (user, market, league)
TripleRows(preds, u, m, l) ==
    {r \in BagToSet(preds) : r.user_id = u /\ r.market_id = m /\ r.league_id = l}

RECURSIVE SumCopies(_, _)
SumCopies(B, S) ==
    IF S = {} THEN 0
    ELSE LET r == CHOOSE x \in S : TRUE
         IN  CopiesIn(r, B) + SumCopies(B, S \ {r})

\* SELECT COUNT(*) FROM predictions WHERE user_id, market_id, league_id
CountTriple(preds, u, m, l) == SumCopies(preds, TripleRows(preds, u, m, l))
\* SELECT COUNT(*) FROM predictions WHERE user_id = u
CountUser(preds, u) ==
    SumCopies(preds, {r \in BagToSet(preds) : r.user_id = u})

\* ------------------------------------------------- statements: predictions
\* SELECT id FROM predictions WHERE user_id = $1 AND market_id = $2 AND league_id = $3
SelectPrediction(preds, u, m, l) == TripleRows(preds, u, m, l) # {}

\* UNIQUE(user_id, market_id, league_id)
PredictionUniqueOk(preds, u, m, l) == TripleRows(preds, u, m, l) = {}

\* a predictions table whose market_id references nothing
PredictionForeignKeysOk_NoMarket(u, m, l) ==
    /\ u \in DOMAIN users
    /\ l \in DOMAIN leagues

\* REFERENCES users(id), markets(id), leagues(id)
PredictionForeignKeysOk(u, m, l) ==
    /\ u \in DOMAIN users
    /\ m \in DOMAIN markets
    /\ l \in DOMAIN leagues

\* INSERT INTO predictions (user_id, market_id, league_id, prediction)
InsertPrediction(preds, u, m, l, c, t) ==
    preds (+) SetToBag({PredictionRow(u, m, l, c, t)})

\* an UPDATE whose SET list leaves the prediction column out
UpdatedRow_KeepsChoice(r, u, m, l, c, t) ==
    IF r.user_id = u /\ r.market_id = m /\ r.league_id = l
    THEN [r EXCEPT !.created_at = t]
    ELSE r

UpdatedRow(r, u, m, l, c, t) ==
    IF r.user_id = u /\ r.market_id = m /\ r.league_id = l
    THEN [r EXCEPT !.prediction = c, !.created_at = t]
    ELSE r

\* UPDATE predictions SET prediction = $4, created_at = NOW() WHERE ...
UpdatePrediction(preds, u, m, l, c, t) ==
    LET F(r) == UpdatedRow(r, u, m, l, c, t)
    IN  BagOfAll(F, preds)

\* UPDATE users SET predictions_made = predictions_made + 1 WHERE id = $1
IncrementPredictionsMade(us, u) ==
    IF u \in DOMAIN us
    THEN [us EXCEPT ![u].predictions_made = @ + 1]
    ELSE us

\* ------------------------------------------------------ handler bookkeeping
Idle == [op |-> "idle"]

Goto(p, label) == pc' = [pc EXCEPT ![p] = label]

\* the handler returns (or raises) and its instance is free again
Return(p, outcome) ==
    /\ pc' = [pc EXCEPT ![p] = "idle"]
    /\ result' = [result EXCEPT ![p] = outcome]

\* abs(hash(title)) % 1000000: a fixed function of the title within one process
DemoId(title) == IF title = "NFL" THEN "DEMO_NFL" ELSE "DEMO_NYC"


\* the choices of the last two completed calls, oldest first
Remember(h, c) == IF Len(h) < 2 THEN Append(h, c) ELSE <<h[2], c>>

\* history: the triple that make_prediction was last called on, the choices
\* of the calls completed on it since some other triple was called, and what
\* the first of these calls found: the user's predictions_made and whether
\* the triple had no row
\* the triple had no row; bad: one of these calls raised although the rows
\* its foreign keys name existed
NoHistory ==
    [t |-> <<0, None, 0>>, cs |-> << >>, made0 |-> 0, fresh |-> FALSE, bad |-> FALSE]

\* ------------------------------------------------------------------ Init
\* no get_weekly_markets call yet
NoWeekly == [week_start |-> 0, at |-> 0, rows |-> << >>, call |-> 0]

\* no calculate_score call yet
NoScore == [op |-> "none"]

\* no rate_limit_check call yet
NoCheck == [u |-> 0, at |-> 0, ok |-> TRUE, call |-> 0]

\* no get_user_stats call yet
NoStats == [op |-> "none", call |-> 0]

\* admin_auth(key) raises 401, an unknown id 404; otherwise the handler
\* returns {"status": "resolved", "prediction": pred.id}
Reply(code, id) == [code |-> code, prediction |-> id]

\* ensure_schema drops and re-creates the tables; create_tables inserts the
\* default league
InitTables ==
    /\ users = << >>
    /\ leagues = (DefaultLeagueId :> [name |-> "Global League"])
    /\ leagues_id_seq = 0
    /\ league_members = {}
    /\ markets = << >>
    /\ predictions = EmptyBag
    /\ now = 0
    /\ pc = [p \in Procs |-> "idle"]
    /\ loc = [p \in Procs |-> Idle]
    /\ result = [p \in Procs |-> None]
    /\ history = NoHistory
    /\ leaderboard = [league_id |-> 0, limit |-> 0, rows |-> << >>]
    /\ questions = << >>
    /\ votes = {}
    /\ response = Reply(0, 0)
    /\ weekly = NoWeekly
    /\ stats = NoStats
    /\ rate_limits = << >>
    /\ clock = 0
    /\ admitted = [u \in UserIds |-> << >>]
    /\ limited = NoCheck

\* the state after DatabaseManager.connect(), before any scoring call
Init ==
    /\ InitTables
    /\ scored = NoScore

\* ------------------------------------------------------ connect (restart)
\* The process starts again and runs DatabaseManager.connect: ensure_schema
\* finds the tables of the earlier run, executes DROP TABLE IF EXISTS ...
\* CASCADE for each of them (the SERIAL sequence of leagues goes with its
\* table) and calls create_tables, which inserts the default league.  The
\* handlers of the earlier process are gone.
Connect ==
    /\ users' = << >>
    /\ leagues' = (DefaultLeagueId :> [name |-> "Global League"])
    /\ leagues_id_seq' = 0
    /\ league_members' = {}
    /\ markets' = << >>
    /\ predictions' = EmptyBag
    /\ pc' = [p \in Procs |-> "idle"]
    /\ loc' = [p \in Procs |-> Idle]
    /\ result' = [p \in Procs |-> None]
    /\ history' = NoHistory
    /\ UNCHANGED <<appdb, now, leaderboard, reads>>

\* ------------------------------------------------------------- the clock
Tick(d) ==
    /\ now + d <= MaxNow
    /\ now' = now + d
    /\ UNCHANGED <<botdb, appdb, pc, loc, result, history, leaderboard, reads>>

\* ------------------------------------------------------- rate_limit_check
\* [req_time for req_time in self.rate_limits[user_id]
\*  if now - req_time < self.rate_limit_window]
InWindow(times, t) == SelectSeq(times, LAMBDA x : t - x < RateLimitWindow)

\* a limit that lets one more request through
AtLimit_Exclusive(times) == Len(times) > RateLimitMax

\* if len(self.rate_limits[user_id]) >= self.rate_limit_max: return False
AtLimit(times) == Len(times) >= RateLimitMax

\* self.rate_limits[user_id] of a user that may have no entry yet
RequestsOf(rl, u) == IF u \in DOMAIN rl THEN rl[u] ELSE << >>

\* FantasyLeagueBot.rate_limit_check(user_id): no await, so one step
RateLimitCheck(u) ==
    LET recent == InWindow(RequestsOf(rate_limits, u), clock)
        ok == ~AtLimit(recent)
    IN  /\ rate_limits' = (u :> (IF ok THEN Append(recent, clock) ELSE recent)) @@ rate_limits
        /\ admitted' = IF ok THEN [admitted EXCEPT ![u] = Append(@, clock)] ELSE admitted
        /\ limited' = [u |-> u, at |-> clock, ok |-> ok, call |-> 1 - limited.call]
        /\ UNCHANGED <<botdb, appdb, now, pc, loc, result, history, leaderboard,
                       weekly, scored, stats, clock>>

\* time passes; admitted forgets the calls that are a window old
ClockTick ==
    /\ clock + ClockStep <= MaxClock
    /\ clock' = clock + ClockStep
    /\ admitted' = [u \in UserIds |-> InWindow(admitted[u], clock')]
    /\ UNCHANGED <<botdb, appdb, now, pc, loc, result, history, leaderboard,
                   weekly, scored, stats, rate_limits, limited>>

\* ---------------------------------------------------- get_or_create_user
GetOrCreateUser_Call(p, u) ==
    /\ pc[p] = "idle"
    /\ loc' = [loc EXCEPT ![p] = [op |-> "get_or_create_user", u |-> u]]
    /\ Goto(p, "gu_select")
    /\ UNCHANGED <<botdb, appdb, now, result, history, leaderboard, reads>>

\* user = SELECT * FROM users WHERE id = $1; if not user: ...; return dict(user)
GetOrCreateUser_Select(p) ==
    /\ pc[p] = "gu_select"
    /\ IF loc[p].u \in DOMAIN users
       THEN Return(p, "ok") /\ loc' = [loc EXCEPT ![p] = Idle]
       ELSE Goto(p, "gu_insert") /\ UNCHANGED <<result, loc>>
    /\ UNCHANGED <<botdb, appdb, now, history, leaderboard, reads>>

\* INSERT INTO users (id, username, first_name): id is the PRIMARY KEY
GetOrCreateUser_Insert(p) ==
    /\ pc[p] = "gu_insert"
    /\ IF loc[p].u \in DOMAIN users
       THEN /\ Return(p, "error") /\ loc' = [loc EXCEPT ![p] = Idle]
            /\ UNCHANGED users
       ELSE /\ users' = (loc[p].u :> UserRow(now)) @@ users
            /\ Goto(p, "gu_member")
            /\ UNCHANGED <<result, loc>>
    /\ UNCHANGED <<leagues, leagues_id_seq, league_members, markets, predictions,
                   appdb, now, history, leaderboard, reads>>

\* INSERT INTO league_members (league_id, user_id) VALUES (1, $1) ON CONFLICT DO NOTHING
GetOrCreateUser_Member(p) ==
    /\ pc[p] = "gu_member"
    /\ IF DefaultLeagueId \in DOMAIN leagues /\ loc[p].u \in DOMAIN users
       THEN /\ league_members' = league_members \cup {<<DefaultLeagueId, loc[p].u>>}
            /\ Goto(p, "gu_fetch")
            /\ UNCHANGED <<result, loc>>
       ELSE /\ Return(p, "error") /\ loc' = [loc EXCEPT ![p] = Idle]
            /\ UNCHANGED league_members
    /\ UNCHANGED <<users, leagues, leagues_id_seq, markets, predictions,
                   appdb, now, history, leaderboard, reads>>

\* user = SELECT * FROM users WHERE id = $1; return dict(user)
GetOrCreateUser_Fetch(p) ==
    /\ pc[p] = "gu_fetch"
    /\ Return(p, IF loc[p].u \in DOMAIN users THEN "ok" ELSE "error")
    /\ loc' = [loc EXCEPT ![p] = Idle]
    /\ UNCHANGED <<botdb, appdb, now, history, leaderboard, reads>>

\* the INSERT INTO league_members raises instead of running (the connection
\* is lost, or the statement exceeds command_timeout): the exception leaves
\* get_or_create_user and no later statement of the call runs
GetOrCreateUser_Fail(p) ==
    /\ pc[p] = "gu_member"
    /\ Return(p, "error")
    /\ loc' = [loc EXCEPT ![p] = Idle]
    /\ UNCHANGED <<botdb, appdb, now, history, leaderboard, reads>>

GetOrCreateUser_Step(p) ==
    \/ GetOrCreateUser_Select(p)
    \/ GetOrCreateUser_Insert(p)
    \/ GetOrCreateUser_Member(p)
    \/ GetOrCreateUser_Fetch(p)

\* ------------------------------------- make_prediction, handle_prediction
\* history: a call starts
BeginCall(u, m, l) ==
    history' = IF history.t = <<u, m, l>>
               THEN history
               ELSE [t |-> <<u, m, l>>, cs |-> << >>,
                     made0 |-> IF u \in DOMAIN users
                               THEN users[u].predictions_made ELSE 0,
                     fresh |-> TripleRows(predictions, u, m, l) = {},
                     bad |-> FALSE]

\* history: a call has written its choice and returns
RecordCall(p) ==
    history' = IF history.t = <<loc[p].u, loc[p].m, loc[p].l>>
               THEN [history EXCEPT !.cs = Remember(@, loc[p].c)]
               ELSE history

\* DatabaseManager.make_prediction called directly
MakePrediction_Call(p, u, m, l, c) ==
    /\ pc[p] = "idle"
    /\ loc' = [loc EXCEPT ![p] =
                 [op |-> "make_prediction", u |-> u, m |-> m, l |-> l, c |-> c]]
    /\ Goto(p, "mp_select")
    /\ BeginCall(u, m, l)
    /\ UNCHANGED <<botdb, appdb, now, result, leaderboard, reads>>

\* a predict_yes_<id> / predict_no_<id> button: data.split('_', 2), then
\* make_prediction(user.id, market_id, 1, prediction_type == 'yes')
HandlePrediction_Call(p, u, m, c) ==
    /\ pc[p] = "idle"
    /\ loc' = [loc EXCEPT ![p] =
                 [op |-> "handle_prediction", u |-> u, m |-> m,
                  l |-> DefaultLeagueId, c |-> c]]
    /\ Goto(p, "mp_select")
    /\ BeginCall(u, m, DefaultLeagueId)
    /\ UNCHANGED <<botdb, appdb, now, result, leaderboard, reads>>

\* where make_prediction returns to: its caller's next statement, or the end
AfterMakePrediction(p) ==
    IF loc[p].op = "handle_prediction"
    THEN /\ Goto(p, "hp_market")
         /\ UNCHANGED <<result, loc>>
    ELSE /\ Return(p, "ok")
         /\ loc' = [loc EXCEPT ![p] = Idle]

\* an exception leaves make_prediction; handle_prediction catches it and
\* replies "Error recording prediction"
RaiseFromMakePrediction(p) ==
    /\ Return(p, "error")
    /\ loc' = [loc EXCEPT ![p] = Idle]
    /\ history' = IF /\ history.t = <<loc[p].u, loc[p].m, loc[p].l>>
                     /\ PredictionForeignKeysOk(loc[p].u, loc[p].m, loc[p].l)
                  THEN [history EXCEPT !.bad = TRUE]
                  ELSE history

\* existing = SELECT id FROM predictions WHERE ...
MakePrediction_Select(p) ==
    /\ pc[p] = "mp_select"
    /\ IF SelectPrediction(predictions, loc[p].u, loc[p].m, loc[p].l)
       THEN Goto(p, "mp_update")
       ELSE Goto(p, "mp_insert")
    /\ UNCHANGED <<botdb, appdb, now, loc, result, history, leaderboard, reads>>

\* if existing: UPDATE predictions SET prediction = $4, created_at = NOW()
MakePrediction_Update(p) ==
    /\ pc[p] = "mp_update"
    /\ predictions' = UpdatePrediction(predictions, loc[p].u, loc[p].m, loc[p].l,
                                       loc[p].c, now)
    /\ RecordCall(p)
    /\ AfterMakePrediction(p)
    /\ UNCHANGED <<users, leagues, leagues_id_seq, league_members, markets,
                   appdb, now, leaderboard, reads>>

\* else: INSERT INTO predictions (user_id, market_id, league_id, prediction)
MakePrediction_Insert(p) ==
    /\ pc[p] = "mp_insert"
    /\ IF /\ PredictionForeignKeysOk(loc[p].u, loc[p].m, loc[p].l)
          /\ PredictionUniqueOk(predictions, loc[p].u, loc[p].m, loc[p].l)
       THEN /\ predictions' = InsertPrediction(predictions, loc[p].u, loc[p].m,
                                               loc[p].l, loc[p].c, now)
            /\ Goto(p, "mp_incr")
            /\ UNCHANGED <<result, loc, history>>
       ELSE /\ RaiseFromMakePrediction(p)
            /\ UNCHANGED predictions
    /\ UNCHANGED <<users, leagues, leagues_id_seq, league_members, markets,
                   appdb, now, leaderboard, reads>>

\* UPDATE users SET predictions_made = predictions_made + 1 WHERE id = $1
MakePrediction_Increment(p) ==
    /\ pc[p] = "mp_incr"
    /\ users' = IncrementPredictionsMade(users, loc[p].u)
    /\ RecordCall(p)
    /\ AfterMakePrediction(p)
    /\ UNCHANGED <<leagues, leagues_id_seq, league_members, markets, predictions,
                   appdb, now, leaderboard, reads>>

\* market = SELECT * FROM markets WHERE id = $1; if not market: "Market not found"
HandlePrediction_Market(p) ==
    /\ pc[p] = "hp_market"
    /\ Return(p, IF loc[p].m \in DOMAIN markets THEN "recorded" ELSE "market_not_found")
    /\ loc' = [loc EXCEPT ![p] = Idle]
    /\ UNCHANGED <<botdb, appdb, now, history, leaderboard, reads>>

MakePrediction_Step(p) ==
    \/ MakePrediction_Select(p)
    \/ MakePrediction_Update(p)
    \/ MakePrediction_Insert(p)
    \/ MakePrediction_Increment(p)
    \/ HandlePrediction_Market(p)

\* ------------------------------------------------- store_weekly_markets
\* dict.get(key, default)
Get(d, k, default) == IF k \in DOMAIN d THEN d[k] ELSE default

\* a candidate's close_time is a datetime, an ISO string (which parses or
\* not), or anything else / missing
CloseTimeOf(c, t) ==
    LET ct == Get(c, "close_time", [type |-> "none"])
    IN  IF ct.type = "str"
        THEN IF ct.parses THEN ct.t ELSE t + DefaultCloseDays * HoursPerDay
        ELSE IF ct.type = "datetime" THEN ct.t
        ELSE t + DefaultCloseDays * HoursPerDay

\* market.get('ticker', market.get('id', f'DEMO_{abs(hash(market["title"]))%1000000}'))
MarketIdOf(c) == Get(c, "ticker", Get(c, "id", DemoId(c.title)))

\* float(market.get('yes_bid', market.get('yes_price', 0.5))), in hundredths
YesPriceOf(c) == Get(c, "yes_bid", Get(c, "yes_price", 50))
NoPriceOf(c) == Get(c, "no_bid", Get(c, "no_price", 50))

\* INSERT INTO markets (...) VALUES (...) ON CONFLICT (id) DO UPDATE SET
\* title, category, close_time, volume, yes_price, no_price = EXCLUDED.*
\* (category and volume are display fields and are left out of the row)
\* an upsert whose DO UPDATE SET list also carries week_start
UpsertMarket_MovesWeek(mk, c, ws, t) ==
    LET id == MarketIdOf(c)
    IN  IF id \in DOMAIN mk
        THEN [mk EXCEPT ![id].title = c.title,
                        ![id].close_time = CloseTimeOf(c, t),
                        ![id].week_start = ws,
                        ![id].yes_price = YesPriceOf(c),
                        ![id].no_price = NoPriceOf(c)]
        ELSE (id :> [title |-> c.title, close_time |-> CloseTimeOf(c, t),
                     week_start |-> ws, is_resolved |-> FALSE,
                     resolution |-> None, yes_price |-> YesPriceOf(c),
                     no_price |-> NoPriceOf(c)]) @@ mk

UpsertMarket(mk, c, ws, t) ==
    LET id == MarketIdOf(c)
    IN  IF id \in DOMAIN mk
        THEN [mk EXCEPT ![id].title = c.title,
                        ![id].close_time = CloseTimeOf(c, t),
                        ![id].yes_price = YesPriceOf(c),
                        ![id].no_price = NoPriceOf(c)]
        ELSE (id :> [title |-> c.title, close_time |-> CloseTimeOf(c, t),
                     week_start |-> ws, is_resolved |-> FALSE,
                     resolution |-> None, yes_price |-> YesPriceOf(c),
                     no_price |-> NoPriceOf(c)]) @@ mk

\* get_demo_markets(): base_time = datetime.now(); two of its five entries
DemoMarkets(t) ==
    << [title |-> "NFL", close_time |-> [type |-> "datetime",
                                         t |-> t + DemoCloseDaysA * HoursPerDay],
        yes_price |-> 28, no_price |-> 72],
       [title |-> "NYC", close_time |-> [type |-> "datetime",
                                         t |-> t + DemoCloseDaysB * HoursPerDay],
        yes_price |-> 15, no_price |-> 85] >>

\* DatabaseManager.store_weekly_markets(markets_data, week_start) called directly
StoreWeeklyMarkets_Call(p, data, ws) ==
    /\ pc[p] = "idle"
    /\ loc' = [loc EXCEPT ![p] =
                 [op |-> "store_weekly_markets", data |-> data, ws |-> ws, i |-> 1]]
    /\ Goto(p, "sw_loop")
    /\ UNCHANGED <<botdb, appdb, now, result, history, leaderboard, reads>>

\* fetch_and_store_weekly_markets: the Kalshi markets when the feed is
\* available and returns some, the demo markets otherwise
FetchAndStore_Call(p, feed) ==
    /\ pc[p] = "idle"
    /\ loc' = [loc EXCEPT ![p] =
                 [op |-> "fetch_and_store_weekly_markets",
                  data |-> IF feed # << >> THEN feed ELSE DemoMarkets(now),
                  ws |-> WeekStartOf(now), i |-> 1]]
    /\ Goto(p, "sw_loop")
    /\ UNCHANGED <<botdb, appdb, now, result, history, leaderboard, reads>>

\* for market in markets_data: ... await conn.execute(INSERT ... ON CONFLICT ...)
StoreWeeklyMarkets_Loop(p) ==
    /\ pc[p] = "sw_loop"
    /\ IF loc[p].i <= Len(loc[p].data)
       THEN /\ markets' = UpsertMarket(markets, loc[p].data[loc[p].i], loc[p].ws, now)
            /\ loc' = [loc EXCEPT ![p].i = @ + 1]
            /\ UNCHANGED <<pc, result>>
       ELSE /\ Return(p, "ok")
            /\ loc' = [loc EXCEPT ![p] = Idle]
            /\ UNCHANGED markets
    /\ UNCHANGED <<users, leagues, leagues_id_seq, league_members, predictions,
                   appdb, now, history, leaderboard, reads>>

\* ----------------------------------------------------- get_weekly_markets
\* a filter that keeps the market closing at the call time
IsOpenAt_Inclusive(mk, id, t) == mk[id].close_time >= t

\* ... AND close_time > NOW()
IsOpenAt(mk, id, t) == mk[id].close_time > t

\* SELECT * FROM markets WHERE week_start = $1 AND close_time > NOW()
WeeklyMarketIds(mk, ws, t) ==
    {id \in DOMAIN mk : mk[id].week_start = ws /\ IsOpenAt(mk, id, t)}

\* ORDER BY close_time ASC: rows with the same close_time come in any order
CloseTimeOrderings(mk, S) ==
    {s \in [1..Cardinality(S) -> S] :
        /\ \A i, j \in 1..Cardinality(S) : i # j => s[i] # s[j]
        /\ \A i, j \in 1..Cardinality(S) :
              i < j => mk[s[i]].close_time <= mk[s[j]].close_time}

\* DatabaseManager.get_weekly_markets(week_start): one SELECT; weekly.call
\* alternates so that every call is a step
GetWeeklyMarkets(p, ws) ==
    /\ pc[p] = "idle"
    /\ \E rows \in CloseTimeOrderings(markets, WeeklyMarketIds(markets, ws, now)) :
          weekly' = [week_start |-> ws, at |-> now, rows |-> rows,
                     call |-> 1 - weekly.call]
    /\ UNCHANGED <<botdb, appdb, now, pc, loc, result, history, leaderboard, scored, stats, limiter>>

\* ------------------------------------------------ handle_league_creation
\* /create <name>: league_name = ' '.join(context.args)
LeagueCreation_Call(p, u, name) ==
    /\ pc[p] = "idle"
    /\ leagues_id_seq < MaxLeagueSeq
    /\ loc' = [loc EXCEPT ![p] =
                 [op |-> "handle_league_creation", u |-> u, name |-> name, league_id |-> 0]]
    /\ Goto(p, "lc_select")
    /\ UNCHANGED <<botdb, appdb, now, result, history, leaderboard, reads>>

\* existing = SELECT id FROM leagues WHERE name = $1
LeagueNamed(ls, name) == {id \in DOMAIN ls : ls[id].name = name}

\* a leagues table whose name column has no UNIQUE constraint
LeagueNameUniqueOk_Missing(ls, name) == TRUE

\* name VARCHAR(255) UNIQUE NOT NULL
LeagueNameUniqueOk(ls, name) == LeagueNamed(ls, name) = {}

LeagueCreation_Select(p) ==
    /\ pc[p] = "lc_select"
    /\ IF LeagueNamed(leagues, loc[p].name) # {}
       THEN Return(p, "already_exists") /\ loc' = [loc EXCEPT ![p] = Idle]
       ELSE Goto(p, "lc_insert") /\ UNCHANGED <<result, loc>>
    /\ UNCHANGED <<botdb, appdb, now, history, leaderboard, reads>>

\* league_id = INSERT INTO leagues (name) VALUES ($1) RETURNING id
\* id SERIAL PRIMARY KEY takes nextval of the sequence, which the explicit
\* id of the default league never advanced; name is UNIQUE
LeagueCreation_Insert(p) ==
    /\ pc[p] = "lc_insert"
    /\ leagues_id_seq' = leagues_id_seq + 1
    /\ IF leagues_id_seq' \notin DOMAIN leagues /\ LeagueNameUniqueOk(leagues, loc[p].name)
       THEN /\ leagues' = (leagues_id_seq' :> [name |-> loc[p].name]) @@ leagues
            /\ loc' = [loc EXCEPT ![p].league_id = leagues_id_seq']
            /\ Goto(p, "lc_member")
            /\ UNCHANGED result
       ELSE /\ Return(p, "error") /\ loc' = [loc EXCEPT ![p] = Idle]
            /\ UNCHANGED leagues
    /\ UNCHANGED <<users, league_members, markets, predictions,
                   appdb, now, history, leaderboard, reads>>

\* INSERT INTO league_members (league_id, user_id) VALUES ($1, $2)
LeagueCreation_Member(p) ==
    /\ pc[p] = "lc_member"
    /\ IF /\ loc[p].u \in DOMAIN users
          /\ loc[p].league_id \in DOMAIN leagues
          /\ <<loc[p].league_id, loc[p].u>> \notin league_members
       THEN /\ league_members' = league_members \cup {<<loc[p].league_id, loc[p].u>>}
            /\ Return(p, "created")
       ELSE /\ Return(p, "error")
            /\ UNCHANGED league_members
    /\ loc' = [loc EXCEPT ![p] = Idle]
    /\ UNCHANGED <<users, leagues, leagues_id_seq, markets, predictions,
                   appdb, now, history, leaderboard, reads>>

LeagueCreation_Step(p) ==
    \/ LeagueCreation_Select(p)
    \/ LeagueCreation_Insert(p)
    \/ LeagueCreation_Member(p)

\* ---------------------------------------------------- join_league_command
\* lower-casing of the league names of the model
Lower(name) == IF name = "Alpha" THEN "alpha" ELSE name

\* name ILIKE $1, for a pattern without % or _: equality up to letter case
ILike(name, pattern) == Lower(name) = Lower(pattern)

\* SELECT id, name FROM leagues WHERE name ILIKE $1
LeaguesLike(ls, pattern) == {id \in DOMAIN ls : ILike(ls[id].name, pattern)}

\* a membership check that never finds the row
IsMember_Never(lm, league_id, u) == FALSE

\* SELECT * FROM league_members WHERE league_id = $1 AND user_id = $2
IsMember(lm, league_id, u) == <<league_id, u>> \in lm

\* /join <name>: league_name = ' '.join(context.args)
JoinLeague_Call(p, u, name) ==
    /\ pc[p] = "idle"
    /\ loc' = [loc EXCEPT ![p] =
                 [op |-> "join_league_command", u |-> u, name |-> name, league_id |-> 0]]
    /\ Goto(p, "jl_select")
    /\ UNCHANGED <<botdb, appdb, now, result, history, leaderboard, reads>>

\* league = fetchrow(...): the first row of a query without ORDER BY is any
\* of the matching rows
JoinLeague_Select(p) ==
    /\ pc[p] = "jl_select"
    /\ IF LeaguesLike(leagues, loc[p].name) = {}
       THEN Return(p, "not_found") /\ loc' = [loc EXCEPT ![p] = Idle]
       ELSE /\ \E id \in LeaguesLike(leagues, loc[p].name) :
                  loc' = [loc EXCEPT ![p].league_id = id]
            /\ Goto(p, "jl_member")
            /\ UNCHANGED result
    /\ UNCHANGED <<botdb, appdb, now, history, leaderboard, reads>>

\* existing = SELECT * FROM league_members ...; "You're already a member"
JoinLeague_Member(p) ==
    /\ pc[p] = "jl_member"
    /\ IF IsMember(league_members, loc[p].league_id, loc[p].u)
       THEN Return(p, "already_member") /\ loc' = [loc EXCEPT ![p] = Idle]
       ELSE Goto(p, "jl_insert") /\ UNCHANGED <<result, loc>>
    /\ UNCHANGED <<botdb, appdb, now, history, leaderboard, reads>>

\* INSERT INTO league_members (league_id, user_id) VALUES ($1, $2): raises
\* on the primary key and on the foreign keys
JoinLeague_Insert(p) ==
    /\ pc[p] = "jl_insert"
    /\ IF /\ loc[p].u \in DOMAIN users
          /\ loc[p].league_id \in DOMAIN leagues
          /\ <<loc[p].league_id, loc[p].u>> \notin league_members
       THEN /\ league_members' = league_members \cup {<<loc[p].league_id, loc[p].u>>}
            /\ Goto(p, "jl_count")
            /\ UNCHANGED <<result, loc>>
       ELSE /\ Return(p, "error") /\ loc' = [loc EXCEPT ![p] = Idle]
            /\ UNCHANGED league_members
    /\ UNCHANGED <<users, leagues, leagues_id_seq, markets, predictions,
                   appdb, now, history, leaderboard, reads>>

\* member_count = SELECT COUNT(*) ...; "Joined League!"
JoinLeague_Count(p) ==
    /\ pc[p] = "jl_count"
    /\ Return(p, "joined")
    /\ loc' = [loc EXCEPT ![p] = Idle]
    /\ UNCHANGED <<botdb, appdb, now, history, leaderboard, reads>>

\* a join_league_<id> button: league_id = int(data.split("_")[2])
ButtonJoin_Call(p, u, league_id) ==
    /\ pc[p] = "idle"
    /\ loc' = [loc EXCEPT ![p] =
                 [op |-> "button_join_league", u |-> u, name |-> None,
                  league_id |-> league_id]]
    /\ Goto(p, "bj_select")
    /\ UNCHANGED <<botdb, appdb, now, result, history, leaderboard, reads>>

\* league = SELECT name FROM leagues WHERE id = $1; "League not found."
ButtonJoin_Select(p) ==
    /\ pc[p] = "bj_select"
    /\ IF loc[p].league_id \in DOMAIN leagues
       THEN Goto(p, "bj_insert") /\ UNCHANGED <<result, loc>>
       ELSE Return(p, "not_found") /\ loc' = [loc EXCEPT ![p] = Idle]
    /\ UNCHANGED <<botdb, appdb, now, history, leaderboard, reads>>

\* INSERT INTO league_members ... ON CONFLICT DO NOTHING: raises on the
\* foreign keys only; "Joined"
ButtonJoin_Insert(p) ==
    /\ pc[p] = "bj_insert"
    /\ IF loc[p].u \in DOMAIN users /\ loc[p].league_id \in DOMAIN leagues
       THEN /\ league_members' = league_members \cup {<<loc[p].league_id, loc[p].u>>}
            /\ Return(p, "joined")
       ELSE /\ Return(p, "error")
            /\ UNCHANGED league_members
    /\ loc' = [loc EXCEPT ![p] = Idle]
    /\ UNCHANGED <<users, leagues, leagues_id_seq, markets, predictions,
                   appdb, now, history, leaderboard, reads>>

JoinLeague_Step(p) ==
    \/ JoinLeague_Select(p)
    \/ JoinLeague_Member(p)
    \/ JoinLeague_Insert(p)
    \/ JoinLeague_Count(p)
    \/ ButtonJoin_Select(p)
    \/ ButtonJoin_Insert(p)

\* -------------------------------------------------------- get_leaderboard
Min(a, b) == IF a < b THEN a ELSE b

\* FROM users u LEFT JOIN league_members lm ON u.id = lm.user_id AND
\* lm.league_id = $1 WHERE u.predictions_made > 0: a LEFT JOIN keeps every
\* row of users, and (league_id, user_id) is a key, so one row per user
LeaderboardUsers(us, lm, league_id) == {u \in DOMAIN us : us[u].predictions_made > 0}

\* ORDER BY u.total_score DESC, u.predictions_correct DESC
OrderedBefore(a, b) ==
    \/ a.total_score > b.total_score
    \/ a.total_score = b.total_score /\ a.predictions_correct > b.predictions_correct

\* the orders SQL allows for the rows: rows that tie come in any order
Orderings(us, S) ==
    {s \in [1..Cardinality(S) -> S] :
        /\ \A i, j \in 1..Cardinality(S) : i # j => s[i] # s[j]
        /\ \A i, j \in 1..Cardinality(S) : i < j => ~OrderedBefore(us[s[j]], us[s[i]])}

LeaderboardRow(us, u) ==
    [id |-> u, total_score |-> us[u].total_score,
     predictions_made |-> us[u].predictions_made,
     predictions_correct |-> us[u].predictions_correct]

\* ... LIMIT $2
LeaderboardResults(us, lm, league_id, limit) ==
    {[i \in 1..Min(limit, Len(s)) |-> LeaderboardRow(us, s[i])] :
        s \in Orderings(us, LeaderboardUsers(us, lm, league_id))}

\* DatabaseManager.get_leaderboard(league_id, limit): one SELECT
GetLeaderboard(p, league_id, limit) ==
    /\ pc[p] = "idle"
    /\ \E rows \in LeaderboardResults(users, league_members, league_id, limit) :
          leaderboard' = [league_id |-> league_id, limit |-> limit, rows |-> rows]
    /\ UNCHANGED <<botdb, appdb, now, pc, loc, result, history, reads>>

\* --------------------------------------------------------- get_user_stats
\* the accuracy column of get_leaderboard and get_user_stats:
\* CASE WHEN predictions_made > 0 THEN
\*   ROUND((predictions_correct::float / predictions_made * 100), 1) ELSE 0 END
\* the first argument of ROUND is a float, PostgreSQL's double precision
AccuracyArgType == "double precision"

\* PostgreSQL has round(numeric, integer) and round(double precision), and
\* casts double precision to numeric on assignment only: a statement that
\* calls ROUND(x, 1) on another type is rejected when it is prepared
\* ("function round(double precision, integer) does not exist"), whatever
\* rows it would read
RoundToDigitsResolves(argtype) == argtype = "numeric"

\* the value of the column where the statement runs, in tenths of a percent
Accuracy(made, correct) ==
    IF made > 0 THEN (correct * 2000 + made) \div (2 * made) ELSE 0

\* DatabaseManager.get_user_stats(user_id): the first SELECT carries the
\* accuracy column; `if not user_data: return {}`; the two later SELECTs
\* only read; stats.call alternates so that every call is a step
StatsOf(u, outcome, accuracy) ==
    [op |-> "get_user_stats", u |-> u, outcome |-> outcome, accuracy |-> accuracy,
     call |-> 1 - stats.call]

GetUserStats(p, u) ==
    /\ pc[p] = "idle"
    /\ stats' =
          IF ~RoundToDigitsResolves(AccuracyArgType)
          THEN StatsOf(u, "error", 0)
          ELSE IF u \notin DOMAIN users
          THEN StatsOf(u, "empty", 0)
          ELSE StatsOf(u, "ok", Accuracy(users[u].predictions_made,
                                         users[u].predictions_correct))
    /\ UNCHANGED <<botdb, appdb, now, pc, loc, result, history, leaderboard,
                   weekly, scored, limiter>>

\* ------------------------------------------------------ scoring_system.py
\* AdvancedScoring reads predictions joined with a table weekly_markets
\* (id, close_time, resolved, resolution_value) that no file of src creates:
\* it is taken to be the markets table under the scoring module's column
\* names, resolution_value being "yes", "no" or NULL.
Side(c) == IF c THEN "yes" ELSE "no"

\* market_odds: float = None
NoOdds == [given |-> FALSE, p |-> 0]

\* `if market_odds and ...`: None and 0.0 are both falsy
Truthy(odds) == odds.given /\ odds.p # 0

\* a contrarian bonus that pays the multiplied base on top of the base
ContrarianBonus_Cumulative(base, odds) ==
    IF Truthy(odds) /\ odds.p < ContrarianBonusThreshold
    THEN base + (base * ContrarianBonusMultiplier) \div 10
    ELSE 0

\* if market_odds and market_odds < threshold: bonus += int(base * multiplier)
ContrarianBonus(base, odds) ==
    IF Truthy(odds) /\ odds.p < ContrarianBonusThreshold
    THEN (base * ContrarianBonusMultiplier) \div 10
    ELSE 0

\* an early-bird test that also pays at exactly the window
EarlyBirdBonusOf_Inclusive(close_time, created_at) ==
    IF close_time - created_at >= EarlyBirdBonusHours THEN EarlyBirdBonus ELSE 0

\* time_to_close = close_time - created_at;
\* if time_to_close.total_seconds() > early_bird_bonus_hours * 3600
EarlyBirdBonusOf(close_time, created_at) ==
    IF close_time - created_at > EarlyBirdBonusHours THEN EarlyBirdBonus ELSE 0

\* if streak >= threshold: bonus += (streak - threshold + 1) * per_correct
StreakBonus(streak) ==
    IF streak >= StreakBonusThreshold
    THEN (streak - StreakBonusThreshold + 1) * StreakBonusPerCorrect
    ELSE 0

\* for pred in recent_predictions: if pred['is_correct']: streak += 1 else: break
RECURSIVE LeadingCorrect(_)
LeadingCorrect(flags) ==
    IF flags = << >> \/ ~Head(flags)
    THEN 0
    ELSE 1 + LeadingCorrect(Tail(flags))

\* ... ORDER BY p.created_at DESC LIMIT 10
Limit(s, n) == SubSeq(s, 1, Min(n, Len(s)))

\* get_user_streak, given the is_correct column of the user's predictions on
\* resolved markets, newest first
GetUserStreak(flags) == LeadingCorrect(Limit(flags, StreakLimit))

\* what a calculate_score call returns (out) and how it got there
ScoreOf(out, contrarian, early, streak_bonus) ==
    [out |-> out, contrarian |-> contrarian, early |-> early,
     streak_bonus |-> streak_bonus]

\* a wrong prediction that is scored like a correct one without its base
CalculateScore_BonusesOnWrong(row, odds, flags) ==
    IF ~row.found \/ row.resolution_value = None
    THEN ScoreOf(0, 0, 0, 0)
    ELSE LET base == IF Side(row.prediction) = row.resolution_value
                     THEN BaseCorrectPoints ELSE BaseWrongPoints
             c == ContrarianBonus(BaseCorrectPoints, odds)
             e == EarlyBirdBonusOf(row.close_time, row.created_at)
             k == StreakBonus(GetUserStreak(flags))
         IN  ScoreOf(base + c + e + k, c, e, k)

\* a score that takes a missing resolution_value for a "yes"
CalculateScore_NullAsYes(row, odds, flags) ==
    IF ~row.found
    THEN ScoreOf(0, 0, 0, 0)
    ELSE IF ~row.prediction
    THEN ScoreOf(BaseWrongPoints, 0, 0, 0)
    ELSE LET base == BaseCorrectPoints
             c == ContrarianBonus(base, odds)
             e == EarlyBirdBonusOf(row.close_time, row.created_at)
             k == StreakBonus(GetUserStreak(flags))
         IN  ScoreOf(base + c + e + k, c, e, k)

\* calculate_score(prediction_id, market_odds), given the joined row it
\* fetches and the rows get_user_streak fetches
CalculateScore(row, odds, flags) ==
    IF ~row.found \/ row.resolution_value = None
    THEN ScoreOf(0, 0, 0, 0)
    ELSE IF Side(row.prediction) # row.resolution_value
    THEN ScoreOf(BaseWrongPoints, 0, 0, 0)
    ELSE LET base == BaseCorrectPoints
             c == ContrarianBonus(base, odds)
             e == EarlyBirdBonusOf(row.close_time, row.created_at)
             k == StreakBonus(GetUserStreak(flags))
         IN  ScoreOf(base + c + e + k, c, e, k)

\* a calculate_score call on given query results
ApplyCalculateScore ==
    /\ scored.op = "input"
    /\ scored' = [scored EXCEPT !.op = "calculate_score",
                                !.score = CalculateScore(scored.row, scored.odds, scored.flags)]
    /\ UNCHANGED <<botdb, appdb, now, pc, loc, result, history, leaderboard, weekly, stats, limiter>>

\* a get_user_streak call on given query results
ApplyGetUserStreak ==
    /\ scored.op = "input"
    /\ scored' = [scored EXCEPT !.op = "get_user_streak",
                                !.streak = GetUserStreak(scored.flags)]
    /\ UNCHANGED <<botdb, appdb, now, pc, loc, result, history, leaderboard, weekly, stats, limiter>>

\* ------------------------------------ scoring_system.py against the tables
\* the market's resolution is recorded: no file of src does it; resolved and
\* resolution_value are set together, once
ResolveMarket(m, outcome) ==
    /\ m \in DOMAIN markets
    /\ ~markets[m].is_resolved
    /\ markets' = [markets EXCEPT ![m].is_resolved = TRUE, ![m].resolution = outcome]
    /\ UNCHANGED <<users, leagues, leagues_id_seq, league_members, predictions,
                   appdb, now, pc, loc, result, history, leaderboard, reads>>

NotFoundRow ==
    [found |-> FALSE, prediction |-> FALSE, resolution_value |-> None,
     created_at |-> 0, close_time |-> 0]

\* SELECT p.*, wm.resolution_value, wm.close_time FROM predictions p
\* JOIN weekly_markets wm ON p.market_id = wm.id WHERE p.id = $1
\* (the prediction is named by its unique triple)
JoinedRow(preds, mk, u, m, l) ==
    IF TripleRows(preds, u, m, l) = {} \/ m \notin DOMAIN mk
    THEN NotFoundRow
    ELSE LET r == CHOOSE r \in TripleRows(preds, u, m, l) : TRUE
         IN  [found |-> TRUE, prediction |-> r.prediction,
              resolution_value |-> mk[m].resolution,
              created_at |-> r.created_at, close_time |-> mk[m].close_time]

\* ... WHERE p.user_id = $1 AND wm.resolved = TRUE
ResolvedRows(preds, mk, u) ==
    {r \in BagToSet(preds) :
        /\ r.user_id = u
        /\ r.market_id \in DOMAIN mk
        /\ mk[r.market_id].is_resolved}

\* SELECT p.prediction = wm.resolution_value as is_correct ...
\* ORDER BY p.created_at DESC: rows of one created_at come in any order
ResolvedFlags(preds, mk, u) ==
    LET S == ResolvedRows(preds, mk, u)
        n == Cardinality(S)
    IN  {[i \in 1..n |-> Side(s[i].prediction) = mk[s[i].market_id].resolution] :
            s \in {t \in [1..n -> S] :
                      /\ \A i, j \in 1..n : i # j => t[i] # t[j]
                      /\ \A i, j \in 1..n : i < j => t[i].created_at >= t[j].created_at}}

\* AdvancedScoring.calculate_score(prediction_id, market_odds)
CalculateScore_Call(p, u, m, l, odds) ==
    /\ pc[p] = "idle"
    /\ loc' = [loc EXCEPT ![p] =
                 [op |-> "calculate_score", u |-> u, m |-> m, l |-> l, odds |-> odds,
                  row |-> NotFoundRow]]
    /\ Goto(p, "cs_fetch")
    /\ UNCHANGED <<botdb, appdb, now, result, history, leaderboard, reads>>

\* what the call leaves in scored when it returns
Scored(p, row, flags) ==
    [op |-> "calculate_score", key |-> <<loc[p].u, loc[p].m, loc[p].l>>,
     odds |-> loc[p].odds, row |-> row, flags |-> flags,
     score |-> CalculateScore(row, loc[p].odds, flags)]

\* prediction = fetchrow(...); the returns before any bonus is computed
CalculateScore_Fetch(p) ==
    /\ pc[p] = "cs_fetch"
    /\ LET row == JoinedRow(predictions, markets, loc[p].u, loc[p].m, loc[p].l)
       IN  IF \/ ~row.found
              \/ row.resolution_value = None
              \/ Side(row.prediction) # row.resolution_value
           THEN /\ scored' = Scored(p, row, << >>)
                /\ Return(p, "ok")
                /\ loc' = [loc EXCEPT ![p] = Idle]
           ELSE /\ loc' = [loc EXCEPT ![p].row = row]
                /\ Goto(p, "cs_streak")
                /\ UNCHANGED <<result, scored>>
    /\ UNCHANGED <<botdb, appdb, now, history, leaderboard, weekly, stats, limiter>>

\* streak = await self.get_user_streak(prediction['user_id']); return
CalculateScore_Streak(p) ==
    /\ pc[p] = "cs_streak"
    /\ \E flags \in ResolvedFlags(predictions, markets, loc[p].u) :
          scored' = Scored(p, loc[p].row, flags)
    /\ Return(p, "ok")
    /\ loc' = [loc EXCEPT ![p] = Idle]
    /\ UNCHANGED <<botdb, appdb, now, history, leaderboard, weekly, stats, limiter>>

CalculateScore_Step(p) ==
    \/ CalculateScore_Fetch(p)
    \/ CalculateScore_Streak(p)

\* ---------------------------------------------------- app/main.py (admin)
AdminKey == "changeme"
QuestionIds == 1..MaxQuestions

\* POST /admin/predictions/create: crud.create_prediction adds a row whose
\* result is NULL under the next id
CreatePrediction(key) ==
    /\ IF key # AdminKey
       THEN /\ response' = Reply(401, 0)
            /\ UNCHANGED questions
       ELSE /\ Cardinality(DOMAIN questions) < MaxQuestions
            /\ questions' = (Cardinality(DOMAIN questions) + 1 :> [result |-> None]) @@ questions
            /\ response' = Reply(200, Cardinality(DOMAIN questions) + 1)
    /\ UNCHANGED <<botdb, votes, now, pc, loc, result, history, leaderboard, reads>>

\* a PredictionVote row: a user's choice on a question
CastVote(u, q, choice) ==
    /\ q \in DOMAIN questions
    /\ \A v \in votes : ~(v.user_id = u /\ v.prediction_id = q)
    /\ votes' = votes \cup {[user_id |-> u, prediction_id |-> q, choice |-> choice]}
    /\ UNCHANGED <<botdb, questions, response, now, pc, loc, result, history, leaderboard, reads>>

\* pred.result = result; db.commit()
SetResult(qs, id, r) == [qs EXCEPT ![id].result = r]

\* POST /admin/predictions/{prediction_id}/resolve
ResolvePrediction(id, r, key) ==
    /\ IF key # AdminKey
       THEN /\ response' = Reply(401, 0)
            /\ UNCHANGED questions
       ELSE IF id \notin DOMAIN questions
       THEN /\ response' = Reply(404, 0)
            /\ UNCHANGED questions
       ELSE /\ questions' = SetResult(questions, id, r)
            /\ response' = Reply(200, id)
    /\ UNCHANGED <<botdb, votes, now, pc, loc, result, history, leaderboard, reads>>

\* ------------------------------------------------------- specifications
\* The prediction ledger, one handler at a time.
WeekHours == DaysPerWeek * HoursPerDay

\* what the Kalshi feed returns in this specification: one market that
\* closes three days after the start of the model's time
LedgerFeed ==
    << [ticker |-> "KX1", title |-> "T1",
        close_time |-> [type |-> "str", parses |-> TRUE,
                        t |-> DemoCloseDaysA * HoursPerDay],
        yes_bid |-> 20, no_bid |-> 80] >>

\* button presses name a stored market or one that was never stored
LedgerMarketIds == {"KX1", "DEMO_NFL"}

NextLedger ==
    \/ \E u \in UserIds : GetOrCreateUser_Call("p1", u)
    \/ GetOrCreateUser_Step("p1")
    \/ \E u \in UserIds, m \in LedgerMarketIds, c \in BOOLEAN :
          HandlePrediction_Call("p1", u, m, c)
    \/ \E u \in UserIds, m \in LedgerMarketIds, l \in {1, 2}, c \in BOOLEAN :
          MakePrediction_Call("p1", u, m, l, c)
    \/ MakePrediction_Step("p1")
    \/ FetchAndStore_Call("p1", LedgerFeed)
    \/ StoreWeeklyMarkets_Loop("p1")
    \/ Tick(MaxNow)

SpecLedger == Init /\ [][NextLedger]_vars

\* ------------------------------------------------------------------ claims
MakePredictionLabels == {"mp_select", "mp_update", "mp_insert", "mp_incr", "hp_market"}

IsClosed(m) == m \in DOMAIN markets /\ markets[m].close_time <= now

C2_NoPostCloseSubmission ==
    [][\A p \in Procs :
         (pc[p] \in MakePredictionLabels /\ IsClosed(loc[p].m)) =>
            /\ predictions' = predictions
            /\ users' = users
            /\ (pc'[p] = "idle" => result'[p] = "error")]_vars

\* ------------------------------------------------------------------------
\* Two handler instances interleaving at every statement, on one user and
\* one market.
NextConc ==
    \/ \E p \in Procs : GetOrCreateUser_Call(p, 1)
    \/ \E p \in Procs : GetOrCreateUser_Step(p)
    \/ \E p \in Procs, c \in BOOLEAN : HandlePrediction_Call(p, 1, "KX1", c)
    \/ \E p \in Procs : MakePrediction_Step(p)
    \/ \E p \in Procs : FetchAndStore_Call(p, LedgerFeed)
    \/ \E p \in Procs : StoreWeeklyMarkets_Loop(p)

SpecConc == Init /\ [][NextConc]_vars

\* C3: a make_prediction call on a (user, market, league) whose rows exist
\* completes without error, also when another call on the same triple runs
\* at the same time, and leaves exactly one row for the triple.
C3_ConcurrentSubmission ==
    [][\A p \in Procs :
         (/\ pc[p] \in MakePredictionLabels
          /\ pc'[p] = "idle"
          /\ PredictionForeignKeysOk(loc[p].u, loc[p].m, loc[p].l)) =>
            /\ result'[p] # "error"
            /\ CountTriple(predictions', loc[p].u, loc[p].m, loc[p].l) = 1]_vars

\* C6: in every state, every user's predictions_made is the number of
\* prediction rows the user owns.
C6_CountMatchesRows ==
    \A u \in DOMAIN users : users[u].predictions_made = CountUser(predictions, u)


\* ------------------------------------------------------------------------
\* The weekly cohort: publishing and re-publishing markets, one call at a time.
\* week_start arguments: the Mondays and Tuesdays of the model's weeks
DateArgs == {d \in 0..(MaxWeeks * DaysPerWeek) : Weekday(d) <= 1}

\* what a feed can say about the market KX1
CohortCandidates ==
    {[ticker |-> "KX1", title |-> ti, close_time |-> ct, yes_bid |-> y, no_bid |-> 100 - y] :
        ti \in Titles,
        ct \in {[type |-> "str", parses |-> TRUE, t |-> DemoCloseDaysA * HoursPerDay],
                [type |-> "str", parses |-> FALSE]},
        y \in {20, 65}}

CohortFeeds == {<<c>> : c \in CohortCandidates}

NextCohort ==
    \/ \E data \in CohortFeeds, ws \in DateArgs : StoreWeeklyMarkets_Call("p1", data, ws)
    \/ \E feed \in CohortFeeds \cup {<< >>} : FetchAndStore_Call("p1", feed)
    \/ StoreWeeklyMarkets_Loop("p1")
    \/ Tick(WeekHours)

SpecCohort == Init /\ [][NextCohort]_vars

\* the candidate a store_weekly_markets call is about to upsert
Upserting(p) == loc[p].data[loc[p].i]

\* C9: a store_weekly_markets step deletes no market row and changes no
\* stored week_start, whatever week_start it is called with; the row of the
\* id it upserts takes the candidate's title.
C9_WeekStartFrozen ==
    [][\A p \in Procs :
         (pc[p] = "sw_loop" /\ pc'[p] = "sw_loop" /\ loc'[p].i = loc[p].i + 1) =>
            /\ \A id \in DOMAIN markets :
                  /\ id \in DOMAIN markets'
                  /\ markets'[id].week_start = markets[id].week_start
            /\ markets'[MarketIdOf(Upserting(p))].title = Upserting(p).title]_vars

\* a call with another week_start has just re-published a stored market
\* under a new title
C9_Witness ==
    \E p \in Procs :
        /\ pc[p] = "sw_loop"
        /\ loc[p].i = 2
        /\ LET c == loc[p].data[1]
               id == MarketIdOf(c)
           IN  /\ id \in DOMAIN markets
               /\ markets[id].week_start # loc[p].ws
               /\ markets[id].title = c.title
               /\ c.title = "T2"

\* C10: a store_weekly_markets call whose week_start is not a Monday writes
\* no market row and ends in an error.
C10_MondayOnly ==
    [][\A p \in Procs :
         (pc[p] = "sw_loop" /\ ~IsMonday(loc[p].ws)) =>
            /\ markets' = markets
            /\ (pc'[p] = "idle" => result'[p] = "error")]_vars


\* ------------------------------------------------------------------------
\* The leaderboard: users who predict on one market, leagues they create,
\* and leaderboard queries, one call at a time.
NextBoard ==
    \/ \E u \in UserIds : GetOrCreateUser_Call("p1", u)
    \/ GetOrCreateUser_Step("p1")
    \/ \E u \in UserIds : HandlePrediction_Call("p1", u, "KX1", TRUE)
    \/ MakePrediction_Step("p1")
    \/ FetchAndStore_Call("p1", LedgerFeed)
    \/ StoreWeeklyMarkets_Loop("p1")
    \/ LeagueCreation_Call("p1", 1, "Alpha")
    \/ LeagueCreation_Step("p1")
    \/ \E l \in {1, 2}, limit \in {1, DefaultLimit} : GetLeaderboard("p1", l, limit)
    \/ Tick(MaxNow)

SpecBoard == Init /\ [][NextBoard]_vars

\* total_score descending, then predictions_correct descending, then the
\* earlier created_at
RanksBefore(a, b) ==
    \/ OrderedBefore(a, b)
    \/ /\ ~OrderedBefore(b, a)
       /\ users[a.id].created_at < users[b.id].created_at

Outcomes == {"yes", "no"}

NextAdmin ==
    \/ \E key \in {AdminKey, ""} : CreatePrediction(key)
    \/ \E u \in UserIds, q \in QuestionIds, c \in Outcomes : CastVote(u, q, c)
    \/ \E q \in QuestionIds, r \in Outcomes, key \in {AdminKey, ""} :
          ResolvePrediction(q, r, key)
    \/ \E u \in UserIds : GetOrCreateUser_Call("p1", u)
    \/ GetOrCreateUser_Step("p1")

SpecAdmin == Init /\ [][NextAdmin]_vars

\* C4: the result of a resolved question never changes, and a resolve
\* request for it is not answered as a successful resolution.
C4_ResolveOnce ==
    [][\A q \in DOMAIN questions :
         questions[q].result # None =>
            /\ questions'[q].result = questions[q].result
            /\ ~(response' # response /\ response' = Reply(200, q))]_vars

\* C5: when a question is resolved, every user who voted for the outcome in
\* that step gains total_score and predictions_correct, and every other
\* voter's total_score is unchanged.
C5_SettlementFanOut ==
    [][\A q \in DOMAIN questions :
         (questions[q].result = None /\ questions'[q].result # None) =>
            \A v \in votes :
               (v.prediction_id = q /\ v.user_id \in DOMAIN users) =>
                  IF v.choice = questions'[q].result
                  THEN /\ users'[v.user_id].total_score > users[v.user_id].total_score
                       /\ users'[v.user_id].predictions_correct
                             > users[v.user_id].predictions_correct
                  ELSE users'[v.user_id].total_score = users[v.user_id].total_score]_vars

\* ------------------------------------------------------------------------
\* The weekly listing: markets are published from the feed or the demo list
\* and listed by week as time passes.
Mondays == {d \in 0..(MaxWeeks * DaysPerWeek) : IsMonday(d)}

NextWeekly ==
    \/ \E feed \in CohortFeeds \cup {<< >>} : FetchAndStore_Call("p1", feed)
    \/ StoreWeeklyMarkets_Loop("p1")
    \/ \E ws \in Mondays : GetWeeklyMarkets("p1", ws)
    \/ Tick(WeekHours)

SpecWeekly == Init /\ [][NextWeekly]_vars

\* C11: a get_weekly_markets(week_start) call returns each stored market of
\* that week_start whose close_time is strictly after the call time exactly
\* once and no other market, in ascending close_time order, and changes no
\* market row.
C11_WeeklyListing ==
    [][weekly' # weekly =>
         /\ markets' = markets
         /\ \A id \in DOMAIN markets :
               (markets[id].week_start = weekly'.week_start
                  /\ markets[id].close_time > weekly'.at)
               <=> (\E i \in DOMAIN weekly'.rows : weekly'.rows[i] = id)
         /\ \A i, j \in DOMAIN weekly'.rows :
               i < j => /\ weekly'.rows[i] # weekly'.rows[j]
                        /\ markets[weekly'.rows[i]].close_time
                              <= markets[weekly'.rows[j]].close_time]_vars

\* a listing of two markets made while a third market of the week, closed
\* at the call time, is still stored
C11_Witness ==
    /\ Len(weekly.rows) >= 2
    /\ weekly.at = now
    /\ \E id \in DOMAIN markets :
          /\ markets[id].week_start = weekly.week_start
          /\ markets[id].close_time <= weekly.at
    /\ \A i \in DOMAIN weekly.rows : weekly.rows[i] \in DOMAIN markets

\* ------------------------------------------------------------------------
\* Leagues: users create leagues and join them by name or by button, one
\* call at a time.
JoinNames == {"Alpha", "alpha"}
JoinLabels == {"jl_select", "jl_member", "jl_insert", "jl_count", "bj_select", "bj_insert"}

NextLeagues ==
    \/ \E u \in UserIds : GetOrCreateUser_Call("p1", u)
    \/ GetOrCreateUser_Step("p1")
    \/ \E name \in JoinNames : LeagueCreation_Call("p1", 1, name)
    \/ LeagueCreation_Step("p1")
    \/ \E u \in UserIds, name \in JoinNames : JoinLeague_Call("p1", u, name)
    \/ \E u \in UserIds, id \in 1..MaxLeagueSeq : ButtonJoin_Call("p1", u, id)
    \/ JoinLeague_Step("p1")

SpecLeagues == Init /\ [][NextLeagues]_vars

NextLeaguesConc ==
    \/ \E p \in Procs : GetOrCreateUser_Call(p, 1)
    \/ \E p \in Procs : GetOrCreateUser_Step(p)
    \/ \E p \in Procs, name \in JoinNames : LeagueCreation_Call(p, 1, name)
    \/ \E p \in Procs : LeagueCreation_Step(p)

SpecLeaguesConc == Init /\ [][NextLeaguesConc]_vars

\* C13: no two league rows ever share a name, and a /create handler that
\* reaches its SELECT or its INSERT while the name is stored ends there with
\* a rejection ("already exists" or the error reply), leaving the leagues and
\* the memberships as they were.
C13_LeagueNamesUnique ==
    [][/\ \A a, b \in DOMAIN leagues' : leagues'[a].name = leagues'[b].name => a = b
       /\ \A p \in Procs :
             (/\ pc[p] \in {"lc_select", "lc_insert"}
              /\ pc'[p] # pc[p]
              /\ \E id \in DOMAIN leagues : leagues[id].name = loc[p].name) =>
                /\ leagues' = leagues
                /\ league_members' = league_members
                /\ pc'[p] = "idle"
                /\ result'[p] \in {"already_exists", "error"}]_vars

\* a /create whose INSERT lost the race for the name: the sequence has moved
\* past an id that no league row took
C13_Witness ==
    /\ leagues_id_seq >= 3
    /\ Cardinality(DOMAIN leagues) < leagues_id_seq
    /\ \E p \in Procs : pc[p] = "idle" /\ result[p] = "error"
    /\ \E p \in Procs : pc[p] = "idle" /\ result[p] = "created"

\* C14: when a league was created under the name given to /join, the join
\* adds the user to the league created under exactly that name, and to no
\* league created under another name.
C14_JoinMatchesCreate ==
    [][\A p \in Procs :
         (/\ pc[p] \in {"jl_insert", "jl_select"}
          /\ pc'[p] # pc[p]
          /\ \E l \in DOMAIN leagues : leagues[l].name = loc[p].name) =>
            \A l \in DOMAIN leagues :
               (<<l, loc[p].u>> \in league_members' /\ <<l, loc[p].u>> \notin league_members)
                  => leagues[l].name = loc[p].name]_vars

\* ------------------------------------------------------------------------
\* Scoring as a function: calculate_score and get_user_streak applied to
\* query results drawn from bounded sets.
\* the user's resolved predictions, newest first: up to MaxHistory of them,
\* all correct but at most one
HistoryShapes ==
    {[i \in 1..n |-> i # k] : n \in 0..MaxHistory, k \in 0..MaxHistory}

OddsInputs ==
    {NoOdds} \cup {[given |-> TRUE, p |-> q] :
                     q \in {0, 20, ContrarianBonusThreshold - 1, ContrarianBonusThreshold,
                            ContrarianBonusThreshold + 1, 100}}

\* the row of predictions JOIN weekly_markets: submitted at hour 0 or 6 for
\* a market closing around the early-bird window after hour 0
JoinedRows ==
    {[found |-> f, prediction |-> c, resolution_value |-> r,
      created_at |-> t, close_time |-> ct] :
        f \in BOOLEAN, c \in BOOLEAN, r \in {None, "yes", "no"}, t \in {0, 6},
        ct \in {EarlyBirdBonusHours - 1, EarlyBirdBonusHours, EarlyBirdBonusHours + 1,
                EarlyBirdBonusHours + 6, EarlyBirdBonusHours + 7}}

ScoreInputs ==
    {[op |-> "input", row |-> row, odds |-> odds, flags |-> flags,
      score |-> ScoreOf(0, 0, 0, 0), streak |-> 0] :
        row \in JoinedRows, odds \in OddsInputs, flags \in HistoryShapes}

InitScoring ==
    /\ InitTables
    /\ scored \in ScoreInputs

NextScoring ==
    \/ ApplyCalculateScore
    \/ ApplyGetUserStreak

SpecScoring == InitScoring /\ [][NextScoring]_vars

\* a calculate_score call that scored a correct prediction on a resolved market
ScoredCorrect ==
    /\ scored.op = "calculate_score"
    /\ scored.row.found
    /\ scored.row.resolution_value = Side(scored.row.prediction)

\* number of leading TRUEs among the first n entries of flags
RECURSIVE CountLeading(_, _)
CountLeading(flags, n) ==
    IF n > Len(flags) \/ ~flags[n] THEN n - 1 ELSE CountLeading(flags, n + 1)

C17_WrongScoresBase ==
    (/\ scored.op = "calculate_score"
     /\ scored.row.found
     /\ scored.row.resolution_value # None
     /\ scored.row.resolution_value # Side(scored.row.prediction)) =>
        scored.score.out = BaseWrongPoints

\* a wrong prediction with contrarian odds, an early submission and a streak
\* of four has been scored
C17_Witness ==
    /\ scored.op = "calculate_score"
    /\ scored.row.found
    /\ scored.row.prediction
    /\ scored.row.resolution_value = "no"
    /\ scored.odds = [given |-> TRUE, p |-> 20]
    /\ scored.row.close_time - scored.row.created_at > EarlyBirdBonusHours
    /\ scored.flags = <<TRUE, TRUE, TRUE, TRUE>>

\* C18: a correct prediction scored with a probability gets the contrarian
\* bonus exactly when the probability is strictly below the threshold,
\* probability 0 included.
C18_ContrarianIffBelow ==
    (ScoredCorrect /\ scored.odds.given) =>
        (scored.score.contrarian > 0 <=> scored.odds.p < ContrarianBonusThreshold)

\* C20: get_user_streak returns the number of correct predictions at the
\* head of the user's resolved predictions, newest first, however many
\* there are.
C20_StreakIsLeadingRun ==
    scored.op = "get_user_streak" => scored.streak = CountLeading(scored.flags, 1)

\* ------------------------------------------------------------------------
\* Settling over several markets: one user predicts on the feed market and the
\* demo markets, the markets are resolved, and predictions are scored.
ReplayMarketIds == {"KX1", "DEMO_NFL", "DEMO_NYC"}

NextReplay ==
    \/ GetOrCreateUser_Call("p1", 1)
    \/ GetOrCreateUser_Step("p1")
    \/ \E feed \in {LedgerFeed, << >>} : FetchAndStore_Call("p1", feed)
    \/ StoreWeeklyMarkets_Loop("p1")
    \/ \E m \in ReplayMarketIds : HandlePrediction_Call("p1", 1, m, TRUE)
    \/ MakePrediction_Step("p1")
    \/ \E m \in ReplayMarketIds, o \in Outcomes : ResolveMarket(m, o)
    \/ \E m \in ReplayMarketIds : CalculateScore_Call("p1", 1, m, DefaultLeagueId, NoOdds)
    \/ CalculateScore_Step("p1")

SpecReplay == Init /\ [][NextReplay]_vars

\* C15: two successive calculate_score calls for the same prediction and
\* market_odds, the prediction row and its resolved market being the same at
\* both, return the same score, whatever was resolved or predicted between.
C15_ScoreReplayable ==
    [][(/\ scored.op = "calculate_score"
        /\ scored'.op = "calculate_score"
        /\ scored' # scored
        /\ scored'.key = scored.key
        /\ scored'.odds = scored.odds
        /\ scored'.row = scored.row
        /\ scored.row.found
        /\ scored.row.resolution_value # None) =>
          scored'.score.out = scored.score.out]_vars

\* ------------------------------------------------------------------------
\* Early submissions: a user registers and the feed market is published on
\* the first day; the user predicts as the days pass, changes the choice, and
\* the prediction is scored after the resolution.
NextEarly ==
    \/ now = 0 /\ GetOrCreateUser_Call("p1", 1)
    \/ GetOrCreateUser_Step("p1")
    \/ now = 0 /\ FetchAndStore_Call("p1", LedgerFeed)
    \/ StoreWeeklyMarkets_Loop("p1")
    \/ \E c \in BOOLEAN : HandlePrediction_Call("p1", 1, "KX1", c)
    \/ MakePrediction_Step("p1")
    \/ \E o \in Outcomes : ResolveMarket("KX1", o)
    \/ CalculateScore_Call("p1", 1, "KX1", DefaultLeagueId, NoOdds)
    \/ CalculateScore_Step("p1")
    \/ Tick(HoursPerDay)

SpecEarly == Init /\ [][NextEarly]_vars

\* C19: every make_prediction write, the first submission or a change of
\* choice, stamps the prediction with the time of the write; and
\* calculate_score gives a correct prediction the early-bird bonus exactly
\* when the market's close_time is more than the window after that stamp.
C19_EarlyBirdIffBeforeWindow ==
    [][/\ \A p \in Procs :
            (/\ pc[p] \in {"mp_insert", "mp_update"}
             /\ pc'[p] # pc[p]
             /\ ~(pc'[p] = "idle" /\ result'[p] = "error")) =>
               \A r \in TripleRows(predictions', loc[p].u, loc[p].m, loc[p].l) :
                  r.created_at = now
       /\ (/\ scored' # scored
           /\ scored'.op = "calculate_score"
           /\ scored'.row.found
           /\ scored'.row.resolution_value = Side(scored'.row.prediction)) =>
               \A r \in TripleRows(predictions, scored'.key[1], scored'.key[2], scored'.key[3]) :
                  (scored'.score.out = BaseCorrectPoints + EarlyBirdBonus
                     <=> markets[scored'.key[2]].close_time - r.created_at
                           > EarlyBirdBonusHours)
                  /\ scored'.score.out \in
                        {BaseCorrectPoints, BaseCorrectPoints + EarlyBirdBonus}]_vars

\* a prediction first submitted well before the window and changed exactly
\* the window before close has been scored, correct, without the bonus
C19_Witness ==
    /\ scored.op = "calculate_score"
    /\ scored.row.found
    /\ scored.row.resolution_value = Side(scored.row.prediction)
    /\ scored.row.close_time - scored.row.created_at = EarlyBirdBonusHours
    /\ scored.score.out = BaseCorrectPoints
    /\ history.t = scored.key
    /\ Len(history.cs) = 2
    /\ history.cs[1] # history.cs[2]

\* ------------------------------------------------------------------------
\* Statistics: users register, predict on the feed market and ask for their
\* statistics, one call at a time.
NextStats ==
    \/ \E u \in UserIds : GetOrCreateUser_Call("p1", u)
    \/ GetOrCreateUser_Step("p1")
    \/ FetchAndStore_Call("p1", LedgerFeed)
    \/ StoreWeeklyMarkets_Loop("p1")
    \/ \E u \in UserIds, c \in BOOLEAN : HandlePrediction_Call("p1", u, "KX1", c)
    \/ MakePrediction_Step("p1")
    \/ \E u \in UserIds : GetUserStats("p1", u)

SpecStats == Init /\ [][NextStats]_vars

\* C21: a get_user_stats call for a stored user never fails; the accuracy it
\* returns is 0 when the user's predictions_made is 0, the percentage of
\* predictions_correct in predictions_made otherwise, and lies between 0
\* and 100 (accuracy is counted in tenths of a percent).
C21_AccuracyDefined ==
    [][(stats' # stats /\ stats'.u \in DOMAIN users) =>
          /\ stats'.outcome = "ok"
          /\ stats'.accuracy \in 0..1000
          /\ users[stats'.u].predictions_made = 0 => stats'.accuracy = 0]_vars

\* ------------------------------------------------------------------------
\* Restarts: users register and predict on the feed market, and the process
\* is started again at any moment.
NextRestart ==
    \/ \E u \in UserIds : GetOrCreateUser_Call("p1", u)
    \/ GetOrCreateUser_Step("p1")
    \/ FetchAndStore_Call("p1", LedgerFeed)
    \/ StoreWeeklyMarkets_Loop("p1")
    \/ \E u \in UserIds, c \in BOOLEAN : HandlePrediction_Call("p1", u, "KX1", c)
    \/ MakePrediction_Step("p1")
    \/ Connect

SpecRestart == Init /\ [][NextRestart]_vars

\* C22: no step removes a user row, lowers its predictions_made, removes the
\* prediction row of a (user, market, league) or removes a membership.
C22_UsersNeverDeleted ==
    [][/\ \A u \in DOMAIN users :
             /\ u \in DOMAIN users'
             /\ users'[u].predictions_made >= users[u].predictions_made
       /\ \A r \in BagToSet(predictions) :
             TripleRows(predictions', r.user_id, r.market_id, r.league_id) # {}
       /\ league_members \subseteq league_members']_vars

\* ------------------------------------------------------------------------
\* The rate limiter: two users send requests as the seconds pass.
NextLimiter ==
    \/ \E u \in {1, 2} : RateLimitCheck(u)
    \/ ClockTick

SpecLimiter == Init /\ [][NextLimiter]_vars

\* C23: at every moment at most rate_limit_max calls of a user were admitted
\* less than a window ago; a call is admitted exactly when fewer than
\* rate_limit_max of the same user's calls were; the request times it leaves
\* stored are those of the admitted calls less than a window old, so a
\* refused call adds none; and a call changes no other user's request times.
C23_SlidingWindow ==
    [][/\ \A u \in UserIds : Len(admitted'[u]) <= RateLimitMax
       /\ limited' # limited =>
             /\ limited'.ok <=> Len(admitted[limited'.u]) < RateLimitMax
             /\ rate_limits'[limited'.u] = admitted'[limited'.u]
             /\ ~limited'.ok => admitted' = admitted
             /\ \A v \in DOMAIN rate_limits : v # limited'.u =>
                   rate_limits'[v] = rate_limits[v]]_vars

\* a call of user 1 has been refused while its window holds requests of two
\* different times and user 2 has requests of its own
C23_Witness ==
    /\ limited.u = 1
    /\ ~limited.ok
    /\ Len(admitted[1]) = RateLimitMax
    /\ admitted[1][1] # admitted[1][RateLimitMax]
    /\ 2 \in DOMAIN rate_limits
    /\ rate_limits[2] # << >>

\* ------------------------------------------------------------------------
\* C24: no step changes the yes_price or the no_price of a stored market.
C24_PricesFrozen ==
    [][\A id \in DOMAIN markets :
          /\ id \in DOMAIN markets'
          /\ markets'[id].yes_price = markets[id].yes_price
          /\ markets'[id].no_price = markets[id].no_price]_vars

\* ------------------------------------------------------------------------
\* C25: no step of a submission whose market id has no market row changes
\* the predictions table or a user row, and the submission ends in the
\* error reply.
C25_UnknownMarketRejected ==
    [][\A p \in Procs :
         (pc[p] \in MakePredictionLabels /\ loc[p].m \notin DOMAIN markets) =>
            /\ predictions' = predictions
            /\ users' = users
            /\ (pc'[p] = "idle" => result'[p] = "error")]_vars

\* a registered user's submission for a market that was never stored has
\* ended in the error reply, while another market is stored
C25_Witness ==
    /\ pc["p1"] = "idle"
    /\ result["p1"] = "error"
    /\ history.t[1] \in DOMAIN users
    /\ history.t[2] \notin DOMAIN markets
    /\ history.t[3] = DefaultLeagueId
    /\ markets # << >>

\* ------------------------------------------------------------------------
\* C26: a market whose close_time has passed stays closed: no step gives it
\* a close_time after the time of the step, so no get_weekly_markets call
\* lists it again.
C26_ClosedStaysClosed ==
    [][\A id \in DOMAIN markets :
          ~IsOpenAt(markets, id, now) =>
             /\ id \in DOMAIN markets'
             /\ ~IsOpenAt(markets', id, now')]_vars

\* ------------------------------------------------------------------------
\* C27: when a /create handler ends with the error reply, no league has the
\* requested name; when it ends with "League Created", a league has the
\* name and the creator is a member of it.
C27_CreationAllOrNothing ==
    [][\A p \in Procs :
         (pc[p] \in {"lc_select", "lc_insert", "lc_member"} /\ pc'[p] = "idle") =>
            /\ result'[p] = "error" => LeagueNamed(leagues', loc[p].name) = {}
            /\ result'[p] = "created" =>
                  \E id \in LeagueNamed(leagues', loc[p].name) :
                     <<id, loc[p].u>> \in league_members']_vars

\* ------------------------------------------------------------------------
\* C28: no step changes the choice recorded in a prediction row.
C28_PredictOnce ==
    [][\A r \in BagToSet(predictions) :
          \A q \in TripleRows(predictions', r.user_id, r.market_id, r.league_id) :
             q.prediction = r.prediction]_vars

\* ------------------------------------------------------------------------
\* Registration: get_or_create_user calls for the same users interleave at
\* every statement, and a statement may fail.
NextMembership ==
    \/ \E p \in Procs, u \in UserIds : GetOrCreateUser_Call(p, u)
    \/ \E p \in Procs : GetOrCreateUser_Step(p)
    \/ \E p \in Procs : GetOrCreateUser_Fail(p)

SpecMembership == Init /\ [][NextMembership]_vars

\* C29: the default league exists, and every user row has a membership of
\* the default league, except while the call that inserted the row is
\* about to add it.
C29_DefaultMembership ==
    /\ DefaultLeagueId \in DOMAIN leagues
    /\ \A u \in DOMAIN users :
          \/ <<DefaultLeagueId, u>> \in league_members
          \/ \E p \in Procs : pc[p] = "gu_member" /\ loc[p].u = u

\* ------------------------------------------------------------------------
\* C30: a calculate_score call for a prediction that has no row, or whose
\* market has no resolution value, returns 0; and no step of calculate_score
\* or of the get_user_streak call inside it changes a prediction, market or
\* user row.
C30_PendingScoresZero ==
    [][\A p \in Procs :
         /\ (pc[p] \in {"cs_fetch", "cs_streak"} /\ pc'[p] # pc[p]) =>
               /\ predictions' = predictions
               /\ markets' = markets
               /\ users' = users
         /\ (/\ pc[p] = "cs_fetch"
             /\ pc'[p] # pc[p]
             /\ \/ TripleRows(predictions, loc[p].u, loc[p].m, loc[p].l) = {}
                \/ loc[p].m \notin DOMAIN markets
                \/ markets[loc[p].m].resolution = None) =>
               /\ pc'[p] = "idle"
               /\ scored'.op = "calculate_score"
               /\ scored'.key = <<loc[p].u, loc[p].m, loc[p].l>>
               /\ scored'.score.out = 0]_vars

\* a prediction on an unresolved market has been scored 0 while the user has
\* a prediction on a resolved market
C30_Witness ==
    /\ scored.op = "calculate_score"
    /\ scored.row.found
    /\ scored.row.resolution_value = None
    /\ scored.score.out = 0
    /\ ~markets[scored.key[2]].is_resolved
    /\ ResolvedRows(predictions, markets, scored.key[1]) # {}

====
